---- MODULE Spec2Model ----
(***************************************************************************)
(* A model of cdoc (src/cdoc.c): the documentation generator that scans a  *)
(* C source file for doc-comments opened by the three characters "/", "*", *)
(* "!", splits each into sections and captures the source the comment      *)
(* documents.                                                               *)
(*                                                                          *)
(* A C string is a sequence of one-character strings; the terminating NUL  *)
(* is the end of the sequence.  The line store `lines` is the array        *)
(* text_to_lines returns, `linep` is the offset of do_file's line pointer  *)
(* from the start of that array (0-based, Len(lines) is the terminating    *)
(* NULL entry).                                                             *)
(***************************************************************************)
EXTENDS Integers, Sequences, FiniteSets, TLC

----------------------------------------------------------------------------
(* Bounds of the model.                                                    *)

\* A file is the concatenation of at most MaxChunks chunks of the pool.
MaxChunks == 3

\* LINENO subtracts pointers into two different heap arrays; the distance
\* between the two arrays, in elements, is drawn from -MaxPtrDiff..MaxPtrDiff.
MaxPtrDiff == 2

----------------------------------------------------------------------------
(* String literals of the program.                                         *)

\* DocOpen is the text "/*!"
DocOpen ==
    <<"/", "*", "!">>
\* DocClose is the text "*/"
DocClose ==
    <<"*", "/">>
\* FunctionDefinition is the text "/* function definition... */"
FunctionDefinition ==
    <<"/", "*", " ", "f", "u", "n", "c", "t", "i", "o", "n", " ", "d", "e",
      "f", "i", "n", "i", "t", "i", "o", "n", ".", ".", ".", " ", "*", "/">>
\* TagStruct is the text "struct"
TagStruct ==
    <<"s", "t", "r", "u", "c", "t">>
\* TagUnion is the text "union"
TagUnion ==
    <<"u", "n", "i", "o", "n">>
\* TagEnum is the text "enum"
TagEnum ==
    <<"e", "n", "u", "m">>
\* TagTypedef is the text "typedef"
TagTypedef ==
    <<"t", "y", "p", "e", "d", "e", "f">>
\* TagVariable is the text "variable"
TagVariable ==
    <<"v", "a", "r", "i", "a", "b", "l", "e">>
\* TagFunction is the text "function"
TagFunction ==
    <<"f", "u", "n", "c", "t", "i", "o", "n">>
\* TagMacro is the text "macro"
TagMacro ==
    <<"m", "a", "c", "r", "o">>
\* PreOpen is the text "<pre><code>"
PreOpen ==
    <<"<", "p", "r", "e", ">", "<", "c", "o", "d", "e", ">">>
\* PreClose is the text "</code></pre>"
PreClose ==
    <<"<", "/", "c", "o", "d", "e", ">", "<", "/", "p", "r", "e", ">">>
\* Hr is the text "<hr>"
Hr ==
    <<"<", "h", "r", ">">>
\* L_open is the text "/*!"
L_open ==
    <<"/", "*", "!">>
\* L_tag_struct is the text " * @struct foo"
L_tag_struct ==
    <<" ", "*", " ", "@", "s", "t", "r", "u", "c", "t", " ", "f", "o", "o">>
\* L_text is the text " * The struct used for fooing."
L_text ==
    <<" ", "*", " ", "T", "h", "e", " ", "s", "t", "r", "u", "c", "t", " ",
      "u", "s", "e", "d", " ", "f", "o", "r", " ", "f", "o", "o", "i", "n",
      "g", ".">>
\* L_close is the text " */"
L_close ==
    <<" ", "*", "/">>
\* L_doc_function is the text "/*! @function f */"
L_doc_function ==
    <<"/", "*", "!", " ", "@", "f", "u", "n", "c", "t", "i", "o", "n", " ",
      "f", " ", "*", "/">>
\* L_doc_macro is the text "/*! @macro */"
L_doc_macro ==
    <<"/", "*", "!", " ", "@", "m", "a", "c", "r", "o", " ", "*", "/">>
\* L_doc_structs is the text "/*! @structs x"
L_doc_structs ==
    <<"/", "*", "!", " ", "@", "s", "t", "r", "u", "c", "t", "s", " ", "x">>
\* L_bare_at is the text " * @"
L_bare_at ==
    <<" ", "*", " ", "@">>
\* L_extra is the text " * @note  extra tokens here"
L_extra ==
    <<" ", "*", " ", "@", "n", "o", "t", "e", " ", " ", "e", "x", "t", "r",
      "a", " ", "t", "o", "k", "e", "n", "s", " ", "h", "e", "r", "e">>
\* L_struct_foo is the text "struct foo"
L_struct_foo ==
    <<"s", "t", "r", "u", "c", "t", " ", "f", "o", "o">>
\* L_lbrace is the text "{"
L_lbrace ==
    <<"{">>
\* L_member is the text "int some_member;"
L_member ==
    <<"i", "n", "t", " ", "s", "o", "m", "e", "_", "m", "e", "m", "b", "e",
      "r", ";">>
\* L_end is the text "};"
L_end ==
    <<"}", ";">>
\* L_fdef is the text "int f(int x) {"
L_fdef ==
    <<"i", "n", "t", " ", "f", "(", "i", "n", "t", " ", "x", ")", " ", "{">>
\* L_fnest is the text "int g(void) { if (1) { } }"
L_fnest ==
    <<"i", "n", "t", " ", "g", "(", "v", "o", "i", "d", ")", " ", "{", " ",
      "i", "f", " ", "(", "1", ")", " ", "{", " ", "}", " ", "}">>
\* L_macro is the text "#define X(a) \"
L_macro ==
    <<"#", "d", "e", "f", "i", "n", "e", " ", "X", "(", "a", ")", " ", "\\">>
\* L_struct_foo_brace is the text "struct foo {"
L_struct_foo_brace ==
    <<"s", "t", "r", "u", "c", "t", " ", "f", "o", "o", " ", "{">>
\* L_int_x is the text "  int x;"
L_int_x ==
    <<" ", " ", "i", "n", "t", " ", "x", ";">>
\* L_proto is the text "int f(int x);"
L_proto ==
    <<"i", "n", "t", " ", "f", "(", "i", "n", "t", " ", "x", ")", ";">>
\* L_macro_body is the text "  (a + 1)"
L_macro_body ==
    <<" ", " ", "(", "a", " ", "+", " ", "1", ")">>
\* L_doc_union is the text "/*! @union u */"
L_doc_union ==
    <<"/", "*", "!", " ", "@", "u", "n", "i", "o", "n", " ", "u", " ", "*",
      "/">>
\* L_doc_enum is the text "/*! @enum e */"
L_doc_enum ==
    <<"/", "*", "!", " ", "@", "e", "n", "u", "m", " ", "e", " ", "*", "/">>
\* L_doc_typedef is the text "/*! @typedef t */"
L_doc_typedef ==
    <<"/", "*", "!", " ", "@", "t", "y", "p", "e", "d", "e", "f", " ", "t",
      " ", "*", "/">>
\* L_doc_variable is the text "/*! @variable v */"
L_doc_variable ==
    <<"/", "*", "!", " ", "@", "v", "a", "r", "i", "a", "b", "l", "e", " ",
      "v", " ", "*", "/">>
\* L_doc_struc is the text "/*! @struc x */"
L_doc_struc ==
    <<"/", "*", "!", " ", "@", "s", "t", "r", "u", "c", " ", "x", " ", "*",
      "/">>
\* L_doc_file is the text "/*! @file cdoc.c */"
L_doc_file ==
    <<"/", "*", "!", " ", "@", "f", "i", "l", "e", " ", "c", "d", "o", "c",
      ".", "c", " ", "*", "/">>
\* L_doc_plain is the text "/*! plain words */"
L_doc_plain ==
    <<"/", "*", "!", " ", "p", "l", "a", "i", "n", " ", "w", "o", "r", "d",
      "s", " ", "*", "/">>
\* L_rbrace is the text "}"
L_rbrace ==
    <<"}">>
\* L_freturn is the text "int f(void) { return 0; }"
L_freturn ==
    <<"i", "n", "t", " ", "f", "(", "v", "o", "i", "d", ")", " ", "{", " ",
      "r", "e", "t", "u", "r", "n", " ", "0", ";", " ", "}">>
\* HeadOpen is the text "<h3>"
HeadOpen ==
    <<"<", "h", "3", ">">>
\* HeadClose is the text "</h3>"
HeadClose ==
    <<"<", "/", "h", "3", ">">>

----------------------------------------------------------------------------
(* C string helpers.                                                       *)

\* The byte a C string holds at and after its end.
NUL == "NUL"

\* *(s + p - 1): the character at 1-based position p, NUL at the end.
At(s, p) == IF p \in 1..Len(s) THEN s[p] ELSE NUL

\* The C string that starts at position p of s.
From(s, p) == SubSeq(s, p, Len(s))

\* The least element of a non-empty set of integers.
Least(S) == CHOOSE x \in S : \A y \in S : x <= y

\* strstr(s, needle): position of the first occurrence, 0 for NULL.
strstr(s, needle) ==
    LET hits == {p \in 1..(Len(s) - Len(needle) + 1) :
                    SubSeq(s, p, p + Len(needle) - 1) = needle}
    IN  IF hits = {} THEN 0 ELSE Least(hits)

is_hspace(c) == c \in {"\t", "\r", " "}

\* The position reached by `while (is_hspace(*p)) p++` started at p.
RECURSIVE skip_hspace(_, _)
skip_hspace(s, p) ==
    IF is_hspace(At(s, p)) THEN skip_hspace(s, p + 1) ELSE p

\* The position reached by `while (!is_hspace(*cp) && *cp != '\0') cp++`.
RECURSIVE skip_token(_, _)
skip_token(s, p) ==
    IF ~is_hspace(At(s, p)) /\ At(s, p) # NUL THEN skip_token(s, p + 1) ELSE p

is_doc_comment(line) ==
    LET p == skip_hspace(line, 1)
    IN  /\ p + 2 <= Len(line)
        /\ SubSeq(line, p, p + 2) = DocOpen

clean_doc_line(line) ==
    LET p == skip_hspace(line, 1)
    IN  IF At(line, p) = "*"
        THEN IF is_hspace(At(line, p + 1))
             THEN From(line, p + 2)
             ELSE From(line, p + 1)
        ELSE From(line, p)

----------------------------------------------------------------------------
(* Sections (struct section, parse_section).                               *)

\* The three calls of errorf in parse_section.
ErrMissingAt == "Doc-section must begin with @<TAG>"
ErrEmptyTag == "Empty doc-comment tag"
ErrTrailing == "Extra character(s) after tag line <NAME>"
NoError == "none"

\* LINENO(start, cur): both arguments are addresses, counted in elements.
LINENO(start, cur) == cur - start + 1

\* A faulty text_end: the line after a tag line is text whatever it starts
\* with.
text_end_one_line(block, j) == IF j > Len(block) THEN j ELSE j + 1

\* The TEXT loop of parse_section: the first index at or after j of a block
\* line that is the NULL terminator or whose cleaned content starts with '@'.
RECURSIVE text_end(_, _)
text_end(block, j) ==
    IF j > Len(block) THEN j
    ELSE IF At(clean_doc_line(block[j]), 1) = "@" THEN j
    ELSE text_end(block, j + 1)

\* A faulty parse_section: what follows the name on a tag line is not
\* looked at.
parse_section_any_rest(block, k) ==
    LET line == clean_doc_line(block[k])
        tag_end == skip_token(line, 2)
        name_start == skip_hspace(line, tag_end)
        name_end == skip_token(line, name_start)
        next == text_end(block, k + 1)
        s == [tag |-> SubSeq(line, 2, tag_end - 1),
              name |-> SubSeq(line, name_start, name_end - 1),
              text |-> SubSeq(block, k + 1, next - 1)]
    IN  IF At(line, 1) # "@"
        THEN [err |-> ErrMissingAt, s |-> s, next |-> k]
        ELSE IF is_hspace(At(line, 2)) \/ At(line, 2) = NUL
        THEN [err |-> ErrEmptyTag, s |-> s, next |-> k]
        ELSE [err |-> NoError, s |-> s, next |-> next]

\* parse_section on block line k (1-based index into block_lines), whose
\* cleaned content is `line`.  `err` is the errorf call met, if any; `s` is
\* the section and `next` the index *text_body_p is left at.  The text body
\* is kept as the raw block lines text_start points to.
parse_section(block, k) ==
    LET line == clean_doc_line(block[k])
        tag_start == 2
        tag_end == skip_token(line, tag_start)
        name_start == skip_hspace(line, tag_end)
        name_end == skip_token(line, name_start)
        rest == skip_hspace(line, name_end)
        next == text_end(block, k + 1)
        s == [tag |-> SubSeq(line, tag_start, tag_end - 1),
              name |-> SubSeq(line, name_start, name_end - 1),
              text |-> SubSeq(block, k + 1, next - 1)]
    IN  IF At(line, 1) # "@"
        THEN [err |-> ErrMissingAt, s |-> s, next |-> k]
        ELSE IF is_hspace(At(line, 2)) \/ At(line, 2) = NUL
        THEN [err |-> ErrEmptyTag, s |-> s, next |-> k]
        ELSE IF At(line, rest) # NUL
        THEN [err |-> ErrTrailing, s |-> s, next |-> k]
        ELSE [err |-> NoError, s |-> s, next |-> next]

\* The section loop of parse_doc, from block line k on, with the sections
\* parsed so far.  `at` is the block line an error was raised on.
RECURSIVE parse_sections(_, _, _)
parse_sections(block, k, sections) ==
    IF k > Len(block)
    THEN [err |-> NoError, at |-> 0, sections |-> sections]
    ELSE IF At(clean_doc_line(block[k]), 1) = "@"
    THEN LET r == parse_section(block, k)
         IN  IF r.err # NoError
             THEN [err |-> r.err, at |-> k, sections |-> sections]
             ELSE parse_sections(block, r.next, Append(sections, r.s))
    ELSE parse_sections(block, k + 1, sections)

\* The text body of a section as print_section writes it.
Body(s) == [i \in 1..Len(s.text) |-> clean_doc_line(s.text[i])]

\* DOC_IS(tag) for the tag slice of a section.
DOC_IS(s, tag) ==
    /\ Len(s.tag) = Len(tag)
    /\ SubSeq(s.tag, 1, Len(s.tag)) = SubSeq(tag, 1, Len(s.tag))

----------------------------------------------------------------------------
(* Source scanners: what one pass of the character loop does to a line.    *)

\* The position the character loop `for (cp = ...; *cp != '\0'; ++cp)`
\* started at p reaches the next character of cs at, Len(line) + 1 for the
\* NUL: the characters it steps over change nothing.
next_of(line, p, cs) ==
    LET hits == {q \in p..Len(line) : line[q] \in cs}
    IN  IF hits = {} THEN Len(line) + 1 ELSE Least(hits)

\* A faulty struct_scan: the test of line 472 without `brackets == 0`.
RECURSIVE struct_scan_any_semicolon(_, _, _, _)
struct_scan_any_semicolon(line, p, n, done) ==
    LET q == next_of(line, p, {"{", "}", ";"})
    IN  IF q > Len(line) THEN [brackets |-> n, parsed |-> done]
        ELSE LET m == IF line[q] = "{" THEN n + 1
                      ELSE IF line[q] = "}" THEN n - 1
                      ELSE n
             IN  struct_scan_any_semicolon(line, q + 1, m,
                                           done \/ line[q] = ";")

\* parse_struct_source, the inner loop from position p of a line: the
\* bracket count and the parsed flag at the end of the line.
RECURSIVE struct_scan(_, _, _, _)
struct_scan(line, p, n, done) ==
    LET q == next_of(line, p, {"{", "}", ";"})
    IN  IF q > Len(line) THEN [brackets |-> n, parsed |-> done]
        ELSE LET m == IF line[q] = "{" THEN n + 1
                      ELSE IF line[q] = "}" THEN n - 1
                      ELSE n
             IN  struct_scan(line, q + 1, m,
                             done \/ (m = 0 /\ line[q] = ";"))

\* The source entry that stands for the string literal of line 502.
Placeholder == -1
\* A faulty function_scan: a ';' is taken for the start of a body too.
function_scan_semicolon_body(line, p, done, added) ==
    IF \E q \in p..Len(line) : line[q] \in {";", "{"}
    THEN [parsed |-> TRUE, added |-> Append(added, Placeholder)]
    ELSE [parsed |-> done, added |-> added]

\* parse_function_source, the inner loop from position p of a line: the
\* parsed flag and the entries appended to the source while scanning.
RECURSIVE function_scan(_, _, _, _)
function_scan(line, p, done, added) ==
    LET q == next_of(line, p, {"{", ";"})
    IN  IF q > Len(line) THEN [parsed |-> done, added |-> added]
        ELSE IF line[q] = ";" THEN [parsed |-> TRUE, added |-> added]
        ELSE function_scan(line, q + 1, TRUE, Append(added, Placeholder))

\* A faulty macro_scan: an empty line is taken to continue the macro.
macro_scan_nonempty(line) == Len(line) > 0 /\ line[Len(line)] # "\\"

\* parse_macro_source: (line)[strlen(line) - 1] != '\\'.  For an empty line
\* the index is -1 and the byte read is the one before the line in the text
\* buffer: the NUL text_to_lines wrote over the previous line's newline (a
\* capture never starts at the first line of the file, which a doc-comment
\* occupies).
macro_scan(line) ==
    LET last == IF Len(line) = 0 THEN NUL ELSE line[Len(line)]
    IN  last # "\\"

----------------------------------------------------------------------------
(* Input files.                                                            *)

L_empty == <<>>

\* The doc-lines of the comment on struct section (cdoc.c, lines 163-166).
DocExample == <<L_open, L_tag_struct, L_text, L_close>>

\* The four lines of source of the comment on struct doc (lines 130-133).
StructExample == <<L_struct_foo, L_lbrace, L_member, L_end>>

\* The pool a file is assembled from: single lines and the two examples.
Chunks ==
    {<<L_open>>, <<L_tag_struct>>, <<L_close>>, <<L_doc_function>>,
     <<L_doc_macro>>, <<L_doc_structs>>, <<L_bare_at>>, <<L_extra>>,
     <<L_lbrace>>, <<L_member>>, <<L_end>>, <<L_fdef>>, <<L_fnest>>,
     <<L_macro>>, <<L_empty>>, DocExample, StructExample}

RECURSIVE Assembled(_)
Assembled(n) ==
    IF n = 0 THEN {<<>>}
    ELSE LET shorter == Assembled(n - 1)
         IN  shorter \cup {f \o c : f \in shorter, c \in Chunks}

\* L_tag_note is the text " * @note"
L_tag_note ==
    <<" ", "*", " ", "@", "n", "o", "t", "e">>
\* L_note_text is the text " * Be careful not to bar this foo."
L_note_text ==
    <<" ", "*", " ", "B", "e", " ", "c", "a", "r", "e", "f", "u", "l", " ",
      "n", "o", "t", " ", "t", "o", " ", "b", "a", "r", " ", "t", "h", "i",
      "s", " ", "f", "o", "o", ".">>

\* The documentation the comment on struct doc shows (lines 124-133): two
\* sections and four lines of source.
NoteExample ==
    <<L_open, L_tag_struct, L_text, L_tag_note, L_note_text, L_close>>
        \o StructExample

\* Readme_09 is line 9 of README.md.
Readme_09 ==
    <<"/", "/", "!", " ", "@", "f", "i", "l", "e", " ", "r", "e", "a", "d",
      "m", "e", "-", "e", "x", "a", "m", "p", "l", "e", ".", "h">>
\* Readme_10 is line 10 of README.md.
Readme_10 ==
    <<"/", "/", "!", " ", " ", " ", " ", " ", "A", " ", "s", "m", "a", "l",
      "l", " ", "f", "i", "l", "e", " ", "t", "o", " ", "s", "h", "o", "w",
      " ", "o", "f", "f", " ", "c", "d", "o", "c">>
\* Readme_12 is line 12 of README.md.
Readme_12 ==
    <<"#", "i", "n", "c", "l", "u", "d", "e", " ", "<", "s", "t", "d", "d",
      "e", "f", ".", "h", ">", " ", "/", "*", " ", "s", "i", "z", "e", "_",
      "t", " ", "*", "/">>
\* Readme_13 is line 13 of README.md.
Readme_13 ==
    <<"#", "i", "n", "c", "l", "u", "d", "e", " ", "<", "s", "t", "d", "i",
      "n", "t", ".", "h", ">", " ", "/", "*", " ", "u", "i", "n", "t", "8",
      "_", "t", " ", "*", "/">>
\* Readme_14 is line 14 of README.md.
Readme_14 ==
    <<"#", "i", "n", "c", "l", "u", "d", "e", " ", "<", "s", "t", "r", "i",
      "n", "g", ".", "h", ">", " ", "/", "*", " ", "m", "e", "m", "s", "e",
      "t", " ", "*", "/">>
\* Readme_16 is line 16 of README.md.
Readme_16 ==
    <<"/", "/", "!", " ", "@", "m", "a", "c", "r", "o", " ", "B", "U", "F",
      "F", "E", "R", "_", "M", "A", "X", "_", "L", "E", "N", "G", "T", "H">>
\* Readme_17 is line 17 of README.md.
Readme_17 ==
    <<"#", "d", "e", "f", "i", "n", "e", " ", "B", "U", "F", "F", "E", "R",
      "_", "M", "A", "X", "_", "L", "E", "N", "G", "T", "H", " ", "2", "5",
      "5">>
\* Readme_19 is line 19 of README.md.
Readme_19 ==
    <<"/", "/", "!", " ", "@", "s", "t", "r", "u", "c", "t", " ", "b", "u",
      "f", "f", "e", "r">>
\* Readme_20 is line 20 of README.md.
Readme_20 ==
    <<"/", "/", "!", " ", " ", " ", " ", " ", "A", " ", "b", "u", "f", "f",
      "e", "r", " ", "f", "o", "r", " ", "h", "o", "l", "d", "i", "n", "g",
      " ", "s", "o", "m", "e", " ", "d", "a", "t", "a", ".">>
\* Readme_21 is line 21 of README.md.
Readme_21 ==
    <<"/", "/", "!", " ", " ", " ", " ", " ", "T", "h", "i", "s", " ", "i",
      "s", " ", "j", "u", "s", "t", " ", "a", "n", " ", "e", "x", "a", "m",
      "p", "l", "e", " ", "s", "o", " ", "d", "o", "n", "'", "t", " ", "t",
      "h", "i", "n", "k", " ", "a", "b", "o", "u", "t", " ", "i", "t", " ",
      "t", "o", "o", " ", "h", "a", "r", "d", ".">>
\* Readme_22 is line 22 of README.md.
Readme_22 ==
    <<"s", "t", "r", "u", "c", "t", " ", "b", "u", "f", "f", "e", "r">>
\* Readme_23 is line 23 of README.md.
Readme_23 ==
    <<"{">>
\* Readme_24 is line 24 of README.md.
Readme_24 ==
    <<" ", " ", " ", " ", "/", "/", "!", " ", "@", "m", "e", "m", "b", "e",
      "r", " ", "d", "a", "t", "a">>
\* Readme_25 is line 25 of README.md.
Readme_25 ==
    <<" ", " ", " ", " ", "/", "/", "!", " ", " ", " ", " ", " ", "C", "o",
      "n", "t", "e", "n", "t", "s", " ", "o", "f", " ", "t", "h", "i", "s",
      " ", "b", "u", "f", "f", "e", "r", ".">>
\* Readme_26 is line 26 of README.md.
Readme_26 ==
    <<" ", " ", " ", " ", "c", "h", "a", "r", " ", "d", "a", "t", "a", "[",
      "B", "U", "F", "F", "E", "R", "_", "M", "A", "X", "_", "L", "E", "N",
      "G", "T", "H", "]", ";">>
\* Readme_27 is line 27 of README.md.
Readme_27 ==
    <<" ", " ", " ", " ", "/", "/", "!", " ", "@", "m", "e", "m", "b", "e",
      "r", " ", "l", "e", "n", "g", "t", "h">>
\* Readme_28 is line 28 of README.md.
Readme_28 ==
    <<" ", " ", " ", " ", "/", "/", "!", " ", " ", " ", " ", " ", "L", "e",
      "n", "g", "t", "h", " ", "o", "f", " ", "t", "h", "e", " ", "b", "u",
      "f", "f", "e", "r", " ", "i", "n", " ", "b", "y", "t", "e", "s", ".">>
\* Readme_29 is line 29 of README.md.
Readme_29 ==
    <<" ", " ", " ", " ", "u", "i", "n", "t", "8", "_", "t", " ", "l", "e",
      "n", "g", "t", "h", ";">>
\* Readme_30 is line 30 of README.md.
Readme_30 ==
    <<"}", ";">>
\* Readme_32 is line 32 of README.md.
Readme_32 ==
    <<"/", "/", "!", " ", "@", "f", "u", "n", "c", "t", "i", "o", "n", " ",
      "c", "l", "e", "a", "r", "_", "b", "u", "f", "f", "e", "r">>
\* Readme_33 is line 33 of README.md.
Readme_33 ==
    <<"/", "/", "!", " ", " ", " ", " ", " ", "Z", "e", "r", "o", " ", "o",
      "u", "t", " ", "t", "h", "e", " ", "c", "o", "n", "t", "e", "n", "t",
      "s", " ", "o", "f", " ", "t", "h", "i", "s", " ", "b", "u", "f", "f",
      "e", "r", " ", "a", "n", "d", " ", "s", "e", "t", " ", "i", "t", "s",
      " ", "l", "e", "n", "g", "t", "h", " ", "t", "o", " ", "z", "e", "r",
      "o", ".">>
\* Readme_34 is line 34 of README.md.
Readme_34 ==
    <<"/", "/", "!", " ", "@", "r", "e", "t", "u", "r", "n">>
\* Readme_35 is line 35 of README.md.
Readme_35 ==
    <<"/", "/", "!", " ", " ", " ", " ", " ", "T", "h", "e", " ", "p", "r",
      "e", "v", "i", "o", "u", "s", " ", "l", "e", "n", "g", "t", "h", " ",
      "o", "f", " ", "t", "h", "e", " ", "b", "u", "f", "f", "e", "r", ".">>
\* Readme_36 is line 36 of README.md.
Readme_36 ==
    <<"s", "t", "a", "t", "i", "c", " ", "i", "n", "l", "i", "n", "e", " ",
      "u", "i", "n", "t", "8", "_", "t">>
\* Readme_37 is line 37 of README.md.
Readme_37 ==
    <<"c", "l", "e", "a", "r", "_", "b", "u", "f", "f", "e", "r", "(", "s",
      "t", "r", "u", "c", "t", " ", "b", "u", "f", "f", "e", "r", "*", " ",
      "b", "u", "f", ")">>
\* Readme_38 is line 38 of README.md.
Readme_38 ==
    <<"{">>
\* Readme_39 is line 39 of README.md.
Readme_39 ==
    <<" ", " ", " ", " ", "u", "i", "n", "t", "8", "_", "t", " ", "c", "o",
      "n", "s", "t", " ", "p", "r", "e", "v", " ", "=", " ", "b", "u", "f",
      "-", ">", "l", "e", "n", "g", "t", "h", ";">>
\* Readme_40 is line 40 of README.md.
Readme_40 ==
    <<" ", " ", " ", " ", "m", "e", "m", "s", "e", "t", "(", "b", "u", "f",
      "-", ">", "d", "a", "t", "a", ",", " ", "0", "x", "0", "0", ",", " ",
      "B", "U", "F", "F", "E", "R", "_", "M", "A", "X", "_", "L", "E", "N",
      "G", "T", "H", ")", ";">>
\* Readme_41 is line 41 of README.md.
Readme_41 ==
    <<" ", " ", " ", " ", "b", "u", "f", "-", ">", "l", "e", "n", "g", "t",
      "h", " ", "=", " ", "0", ";">>
\* Readme_42 is line 42 of README.md.
Readme_42 ==
    <<" ", " ", " ", " ", "r", "e", "t", "u", "r", "n", " ", "p", "r", "e",
      "v", ";">>
\* Readme_43 is line 43 of README.md.
Readme_43 ==
    <<"}">>

\* The example of README.md (lines 9-43), in the //! style.
ReadmeExample ==
    <<Readme_09, Readme_10, L_empty, Readme_12, Readme_13, Readme_14,
      L_empty, Readme_16, Readme_17, L_empty, Readme_19, Readme_20,
      Readme_21, Readme_22, Readme_23, Readme_24, Readme_25, Readme_26,
      Readme_27, Readme_28, Readme_29, Readme_30, L_empty, Readme_32,
      Readme_33, Readme_34, Readme_35, Readme_36, Readme_37, Readme_38,
      Readme_39, Readme_40, Readme_41, Readme_42, Readme_43>>

\* Cdoc_117 is line 117 of cdoc.c.
Cdoc_117 ==
    <<"/", "*", "!">>
\* Cdoc_118 is line 118 of cdoc.c.
Cdoc_118 ==
    <<" ", "*", " ", "@", "s", "t", "r", "u", "c", "t", " ", "d", "o", "c">>
\* Cdoc_119 is line 119 of cdoc.c.
Cdoc_119 ==
    <<" ", "*", " ", "R", "e", "p", "r", "e", "s", "e", "n", "t", "a", "t",
      "i", "o", "n", " ", "o", "f", " ", "a", " ", "d", "o", "c", "u", "m",
      "e", "n", "t", ",", " ", "a", "k", "a", " ", "a", " ", "l", "i", "s",
      "t", " ", "o", "f", " ", "d", "o", "c", "-", "s", "e", "c", "t", "i",
      "o", "n", "s", " ", "d", "o", "c", "u", "m", "e", "n", "t", "i", "n",
      "g", " ", "t", "h", "e">>
\* Cdoc_120 is line 120 of cdoc.c.
Cdoc_120 ==
    <<" ", "*", " ", "a", " ", "s", "i", "n", "g", "l", "e", " ", "p", "o",
      "r", "t", "i", "o", "n", " ", "o", "f", " ", "a", " ", "C", " ", "s",
      "o", "u", "r", "c", "e", " ", "f", "i", "l", "e", ".">>
\* Cdoc_121 is line 121 of cdoc.c.
Cdoc_121 ==
    <<" ", "*">>
\* Cdoc_122 is line 122 of cdoc.c.
Cdoc_122 ==
    <<" ", "*", " ", "T", "h", "e", " ", "c", "d", "o", "c", " ", "d", "o",
      "c", "u", "m", "e", "n", "t", "a", "t", "i", "o", "n", ":">>
\* Cdoc_123 is line 123 of cdoc.c.
Cdoc_123 ==
    <<" ", "*", " ", "<", "p", "r", "e", ">", "<", "c", "o", "d", "e", ">">>
\* Cdoc_124 is line 124 of cdoc.c.
Cdoc_124 ==
    <<" ", "*", " ", "/", "\\", "*", "!">>
\* Cdoc_125 is line 125 of cdoc.c.
Cdoc_125 ==
    <<" ", "*", " ", "*", " ", "@", "s", "t", "r", "u", "c", "t", " ", "f",
      "o", "o">>
\* Cdoc_126 is line 126 of cdoc.c.
Cdoc_126 ==
    <<" ", "*", " ", "*", " ", "T", "h", "e", " ", "s", "t", "r", "u", "c",
      "t", " ", "u", "s", "e", "d", " ", "f", "o", "r", " ", "f", "o", "o",
      "i", "n", "g", ".">>
\* Cdoc_127 is line 127 of cdoc.c.
Cdoc_127 ==
    <<" ", "*", " ", "*", " ", "@", "n", "o", "t", "e">>
\* Cdoc_128 is line 128 of cdoc.c.
Cdoc_128 ==
    <<" ", "*", " ", "*", " ", "B", "e", " ", "c", "a", "r", "e", "f", "u",
      "l", " ", "n", "o", "t", " ", "t", "o", " ", "b", "a", "r", " ", "t",
      "h", "i", "s", " ", "f", "o", "o", ".">>
\* Cdoc_129 is line 129 of cdoc.c.
Cdoc_129 ==
    <<" ", "*", " ", "*", "\\", "/">>
\* Cdoc_130 is line 130 of cdoc.c.
Cdoc_130 ==
    <<" ", "*", " ", "s", "t", "r", "u", "c", "t", " ", "f", "o", "o">>
\* Cdoc_131 is line 131 of cdoc.c.
Cdoc_131 ==
    <<" ", "*", " ", "{">>
\* Cdoc_132 is line 132 of cdoc.c.
Cdoc_132 ==
    <<" ", "*", " ", "i", "n", "t", " ", "s", "o", "m", "e", "_", "m", "e",
      "m", "b", "e", "r", ";">>
\* Cdoc_133 is line 133 of cdoc.c.
Cdoc_133 ==
    <<" ", "*", " ", "}", ";">>
\* Cdoc_134 is line 134 of cdoc.c.
Cdoc_134 ==
    <<" ", "*", " ", "<", "/", "c", "o", "d", "e", ">", "<", "/", "p", "r",
      "e", ">">>
\* Cdoc_135 is line 135 of cdoc.c.
Cdoc_135 ==
    <<" ", "*", " ", "i", "s", " ", "c", "o", "m", "p", "r", "i", "s", "e",
      "d", " ", "o", "f", " ", "t", "w", "o", " ", "s", "e", "c", "t", "i",
      "o", "n", "s", " ", "(", "b", "e", "g", "i", "n", "n", "i", "n", "g",
      " ", "w", "i", "t", "h", " ", "@", "s", "t", "r", "u", "c", "t", " ",
      "a", "n", "d", " ", "@", "n", "o", "t", "e", ")", " ", "a", "n", "d">>
\* Cdoc_136 is line 136 of cdoc.c.
Cdoc_136 ==
    <<" ", "*", " ", "f", "o", "u", "r", " ", "l", "i", "n", "e", "s", " ",
      "o", "f", " ", "s", "o", "u", "r", "c", "e", ".">>
\* Cdoc_137 is line 137 of cdoc.c.
Cdoc_137 ==
    <<" ", "*", "/">>
\* Cdoc_138 is line 138 of cdoc.c.
Cdoc_138 ==
    <<"s", "t", "r", "u", "c", "t", " ", "d", "o", "c">>
\* Cdoc_139 is line 139 of cdoc.c.
Cdoc_139 ==
    <<"{">>
\* Cdoc_140 is line 140 of cdoc.c.
Cdoc_140 ==
    <<" ", " ", " ", " ", "/", "*", "!", " ", "@", "m", "e", "m", "b", "e",
      "r", " ", "s", "e", "c", "t", "i", "o", "n", "s">>
\* Cdoc_141 is line 141 of cdoc.c.
Cdoc_141 ==
    <<" ", " ", " ", " ", " ", "*", " ", "D", "y", "n", "a", "m", "i", "c",
      "a", "l", "l", "y", " ", "a", "l", "l", "o", "c", "a", "t", "e", "d",
      " ", "l", "i", "s", "t", " ", "o", "f", " ", "s", "e", "c", "t", "i",
      "o", "n", "s", " ", "i", "n", " ", "t", "h", "i", "s", " ", "d", "o",
      "c", ".">>
\* Cdoc_142 is line 142 of cdoc.c.
Cdoc_142 ==
    <<" ", " ", " ", " ", " ", "*", "/">>
\* Cdoc_143 is line 143 of cdoc.c.
Cdoc_143 ==
    <<" ", " ", " ", " ", "s", "t", "r", "u", "c", "t", " ", "s", "e", "c",
      "t", "i", "o", "n", "*", " ", "s", "e", "c", "t", "i", "o", "n", "s",
      ";">>
\* Cdoc_144 is line 144 of cdoc.c.
Cdoc_144 ==
    <<" ", " ", " ", " ", "/", "*", "!", " ", "@", "m", "e", "m", "b", "e",
      "r", " ", "s", "e", "c", "t", "i", "o", "n", "_", "c", "o", "u", "n",
      "t">>
\* Cdoc_145 is line 145 of cdoc.c.
Cdoc_145 ==
    <<" ", " ", " ", " ", " ", "*", " ", "N", "u", "m", "b", "e", "r", " ",
      "o", "f", " ", "s", "e", "c", "t", "i", "o", "n", "s", " ", "i", "n",
      " ", "t", "h", "i", "s", " ", "d", "o", "c", ".">>
\* Cdoc_146 is line 146 of cdoc.c.
Cdoc_146 ==
    <<" ", " ", " ", " ", " ", "*", "/">>
\* Cdoc_147 is line 147 of cdoc.c.
Cdoc_147 ==
    <<" ", " ", " ", " ", "s", "i", "z", "e", "_", "t", " ", "s", "e", "c",
      "t", "i", "o", "n", "_", "c", "o", "u", "n", "t", ";">>
\* Cdoc_148 is line 148 of cdoc.c.
Cdoc_148 ==
    <<" ", " ", " ", " ", "/", "*", "!", " ", "@", "m", "e", "m", "b", "e",
      "r", " ", "s", "o", "u", "r", "c", "e">>
\* Cdoc_149 is line 149 of cdoc.c.
Cdoc_149 ==
    <<" ", " ", " ", " ", " ", "*", " ", "D", "y", "n", "a", "m", "i", "c",
      "a", "l", "l", "y", " ", "a", "l", "l", "o", "c", "a", "t", "e", "d",
      " ", "N", "U", "L", "L", "-", "t", "e", "r", "m", "i", "n", "a", "t",
      "e", "d", " ", "l", "i", "s", "t", " ", "o", "f", " ", "s", "o", "u",
      "r", "c", "e", " ", "c", "o", "d", "e", " ", "a", "s", "s", "o", "c",
      "i", "a", "t", "e", "d">>
\* Cdoc_150 is line 150 of cdoc.c.
Cdoc_150 ==
    <<" ", " ", " ", " ", " ", "*", " ", "w", "i", "t", "h", " ", "t", "h",
      "i", "s", " ", "d", "o", "c", ".">>
\* Cdoc_151 is line 151 of cdoc.c.
Cdoc_151 ==
    <<" ", " ", " ", " ", " ", "*", " ", "A", " ", "v", "a", "l", "u", "e",
      " ", "o", "f", " ", "N", "U", "L", "L", " ", "i", "m", "p", "l", "i",
      "e", "s", " ", "t", "h", "a", "t", " ", "t", "h", "i", "s", " ", "d",
      "o", "c", " ", "h", "a", "s", " ", "n", "o", " ", "a", "s", "s", "o",
      "c", "i", "a", "t", "e", "d", " ", "s", "o", "u", "r", "c", "e", " ",
      "c", "o", "d", "e", ".">>
\* Cdoc_152 is line 152 of cdoc.c.
Cdoc_152 ==
    <<" ", " ", " ", " ", " ", "*", "/">>
\* Cdoc_153 is line 153 of cdoc.c.
Cdoc_153 ==
    <<" ", " ", " ", " ", "c", "h", "a", "r", "*", "*", " ", "s", "o", "u",
      "r", "c", "e", ";">>
\* Cdoc_154 is line 154 of cdoc.c.
Cdoc_154 ==
    <<"}", ";">>

\* struct doc of cdoc.c with its comment (lines 117-154): the member docs
\* inside the struct are several lines long.
StructDocExample ==
    <<Cdoc_117, Cdoc_118, Cdoc_119, Cdoc_120, Cdoc_121, Cdoc_122, Cdoc_123,
      Cdoc_124, Cdoc_125, Cdoc_126, Cdoc_127, Cdoc_128, Cdoc_129, Cdoc_130,
      Cdoc_131, Cdoc_132, Cdoc_133, Cdoc_134, Cdoc_135, Cdoc_136, Cdoc_137,
      Cdoc_138, Cdoc_139, Cdoc_140, Cdoc_141, Cdoc_142, Cdoc_143, Cdoc_144,
      Cdoc_145, Cdoc_146, Cdoc_147, Cdoc_148, Cdoc_149, Cdoc_150, Cdoc_151,
      Cdoc_152, Cdoc_153, Cdoc_154>>

\* Files read whole: the examples of the specification and of the tests.
Examples ==
    {<<L_doc_function, L_proto>>,
     <<L_doc_function, L_fdef, L_member, L_rbrace>>,
     <<L_doc_function, L_freturn>>,
     <<L_open, L_tag_struct, L_close, L_struct_foo_brace, L_int_x, L_end>>,
     <<L_doc_macro, L_macro, L_macro_body, L_member>>,
     <<L_doc_macro, L_macro, L_empty, L_member>>,
     <<L_doc_union, L_struct_foo_brace, L_int_x, L_end>>,
     <<L_doc_enum, L_struct_foo_brace, L_int_x, L_end>>,
     <<L_doc_typedef, L_member, L_member>>,
     <<L_doc_variable, L_member, L_member>>,
     <<L_doc_struc, L_member>>,
     <<L_doc_file, L_member>>,
     <<L_doc_plain, L_member>>,
     NoteExample, ReadmeExample, StructDocExample}

\* text_to_lines: the line stores it can return.  A text made of newlines
\* only (every line empty) is left out: lines[count] = NULL is then written
\* past the end of the array text_to_lines allocated.
text_to_lines ==
    {f \in Assembled(MaxChunks) \cup Examples :
        f = <<>> \/ \E i \in 1..Len(f) : f[i] # L_empty}

----------------------------------------------------------------------------
(* State.                                                                  *)

VARIABLES
    lines,        \* do_file: the line store (parse_doc writes NUL into it)
    linep,        \* do_file: offset of the current line in `lines`
    docs,         \* do_file: the docs parsed so far
    printed,      \* do_file: the index i of the PRINT loop
    pc,           \* the statement the program is at
    block_lines,  \* parse_doc: the collected block lines
    in_comment,   \* parse_doc: no closing marker seen yet
    d,            \* parse_doc: the doc under construction
    parsed,       \* parse_*_source: the flag `parsed`
    brackets,     \* parse_struct_source: the counter `brackets`
    err,          \* errorf: the message written before exit(EXIT_FAILURE)
    out,          \* the lines written to stdout
    built,        \* history: the line store as text_to_lines returned it
    span,         \* history: where the doc under construction began
    spans,        \* history: one record per element of docs
    argv,         \* main: the arguments argv[1] .. argv[argc - 1]
    argi,         \* main: the index i of the argument loop
    parse_options,\* main: no "--" met yet
    reads,        \* history: the streams handed to do_file, in order
    renderings    \* history: what print_doc writes for all the docs of
                  \* each file do_file has returned from, in order

\* The state of main.
main_vars == <<argv, argi, parse_options, reads, renderings>>

vars ==
    <<lines, linep, docs, printed, pc, block_lines, in_comment, d, parsed,
      brackets, err, out, built, span, spans, argv, argi, parse_options,
      reads, renderings>>

\* The line at offset i of the line store.
Line(i) == lines[i + 1]

\* struct doc d = {0}.
EmptyDoc == [sections |-> <<>>, source |-> <<>>, has_source |-> FALSE]

NoSpan ==
    [first |-> 0, after_block |-> 0, block_len |-> 0, closed |-> FALSE,
     stopped |-> FALSE, after |-> 0]

Init ==
    /\ lines \in text_to_lines
    /\ built = lines
    /\ linep = 0
    /\ docs = <<>>
    /\ printed = 0
    /\ pc = "scan"
    /\ block_lines = <<>>
    /\ in_comment = FALSE
    /\ d = EmptyDoc
    /\ parsed = FALSE
    /\ brackets = 0
    /\ err = [msg |-> NoError, line |-> 0, at |-> 0]
    /\ out = <<>>
    /\ span = NoSpan
    /\ spans = <<>>
    /\ argv = <<>>
    /\ argi = 1
    /\ parse_options = TRUE
    /\ reads = <<>>
    /\ renderings = <<>>

----------------------------------------------------------------------------
(* do_file: the PARSE loop.                                                *)

\* while (*linep != NULL): a line that is no doc-comment is stepped over.
do_file_skip ==
    /\ pc = "scan"
    /\ linep < Len(lines)
    /\ ~is_doc_comment(Line(linep))
    /\ linep' = linep + 1
    /\ UNCHANGED <<lines, docs, printed, pc, block_lines, in_comment, d,
                   parsed, brackets, err, out, built, span, spans>>
    /\ UNCHANGED main_vars

\* *linep == NULL: the PARSE loop ends and the PRINT loop starts.
do_file_parsed ==
    /\ pc = "scan"
    /\ linep = Len(lines)
    /\ pc' = "print"
    /\ printed' = 0
    /\ UNCHANGED <<lines, linep, docs, block_lines, in_comment, d, parsed,
                   brackets, err, out, built, span, spans>>
    /\ UNCHANGED main_vars

\* The word read through a line pointer that is past the NULL terminator of
\* the line store is not one the program wrote: it is NULL, or it is not.
Beyond == {"null", "wild"}

\* *linep read past the terminator: NULL ends the loop, any other word is
\* handed to is_doc_comment as a string and the behaviour is undefined.
do_file_beyond ==
    /\ pc = "scan"
    /\ linep > Len(lines)
    /\ \E word \in Beyond :
        pc' = IF word = "null" THEN "print" ELSE "undefined"
    /\ printed' = 0
    /\ UNCHANGED <<lines, linep, docs, block_lines, in_comment, d, parsed,
                   brackets, err, out, built, span, spans>>
    /\ UNCHANGED main_vars

----------------------------------------------------------------------------
(* parse_doc.                                                              *)

\* The line store with NUL written at position p of the line at offset i.
Terminate(i, p) ==
    [lines EXCEPT ![i + 1] = SubSeq(lines[i + 1], 1, p - 1)]

\* A faulty parse_doc_open: the first line is not searched for "*/".
parse_doc_open_unsearched ==
    /\ pc = "scan"
    /\ linep < Len(lines)
    /\ is_doc_comment(Line(linep))
    /\ LET first_line == Line(linep)
           start == strstr(first_line, DocOpen)
       IN  block_lines' = <<From(first_line, start + 3)>>
    /\ in_comment' = TRUE
    /\ pc' = "collect"
    /\ span' = [NoSpan EXCEPT !.first = linep, !.block_len = 1,
                              !.after_block = linep + 1]
    /\ linep' = linep + 1
    /\ d' = EmptyDoc
    /\ UNCHANGED <<lines, docs, printed, parsed, brackets, err, out, built,
                   spans>>
    /\ UNCHANGED main_vars

\* Lines 536-558: the first line of the block.
parse_doc_open ==
    /\ pc = "scan"
    /\ linep < Len(lines)
    /\ is_doc_comment(Line(linep))
    /\ LET first_line == Line(linep)
           start == strstr(first_line, DocOpen)
           content == From(first_line, start + 3)
           end == strstr(content, DocClose)
       IN  /\ lines' = IF end # 0
                       THEN Terminate(linep, start + 2 + end)
                       ELSE lines
           /\ block_lines' = IF end # 0
                             THEN <<SubSeq(content, 1, end - 1)>>
                             ELSE <<content>>
           /\ in_comment' = (end = 0)
           /\ pc' = IF end = 0 THEN "collect" ELSE "sections"
           /\ span' = [NoSpan EXCEPT !.first = linep, !.block_len = 1,
                                     !.closed = (end # 0),
                                     !.after_block = linep + 1]
    /\ linep' = linep + 1
    /\ d' = EmptyDoc
    /\ UNCHANGED <<docs, printed, parsed, brackets, err, out, built, spans>>
    /\ UNCHANGED main_vars

\* Lines 559-570 and 573: one more line of the block.
parse_doc_collect ==
    /\ pc = "collect"
    /\ linep < Len(lines)
    /\ LET current_line == Line(linep)
           end == strstr(current_line, DocClose)
       IN  /\ lines' = IF end # 0 THEN Terminate(linep, end) ELSE lines
           /\ block_lines' =
                Append(block_lines,
                       IF end # 0 THEN SubSeq(current_line, 1, end - 1)
                       ELSE current_line)
           /\ in_comment' = (end = 0)
           /\ pc' = IF end = 0 THEN "collect" ELSE "sections"
           /\ span' = [span EXCEPT !.block_len = @ + 1,
                                   !.closed = (end # 0),
                                   !.after_block = linep + 1]
    /\ linep' = linep + 1
    /\ UNCHANGED <<docs, printed, d, parsed, brackets, err, out, built,
                   spans>>
    /\ UNCHANGED main_vars

\* Lines 559 and 573: the loop meets the NULL terminator with in_comment
\* still set, and the line pointer is stepped once more.
parse_doc_unclosed ==
    /\ pc = "collect"
    /\ linep = Len(lines)
    /\ linep' = linep + 1
    /\ pc' = "sections"
    /\ span' = [span EXCEPT !.after_block = linep + 1]
    /\ UNCHANGED <<lines, docs, printed, block_lines, in_comment, d, parsed,
                   brackets, err, out, built, spans>>
    /\ UNCHANGED main_vars

\* The addresses block_lines can have when distances are counted in
\* elements from the first element of the line store: block_lines is
\* another live allocation, below or above the Len(lines) + 1 pointers of
\* the line store.
BlockBases ==
    {Len(lines) + 1 + g : g \in 0..MaxPtrDiff}
        \cup {0 - (Len(block_lines) + 1) - g : g \in 0..MaxPtrDiff}

\* Lines 579-604: the block lines are parsed into sections; parse_section
\* exits through errorf with LINENO(lines_begin, *text_body_p), where
\* *text_body_p points into block_lines.
parse_doc_sections ==
    /\ pc = "sections"
    /\ LET r == parse_sections(block_lines, 1, <<>>)
       IN  IF r.err # NoError
           THEN /\ \E base \in BlockBases :
                     err' = [msg |-> r.err,
                             line |-> LINENO(0, base + r.at - 1),
                             at |-> span.first + r.at - 1]
                /\ pc' = "exit_failure"
                /\ UNCHANGED <<d, block_lines>>
           ELSE /\ d' = [d EXCEPT !.sections = r.sections]
                /\ block_lines' = <<>>
                /\ pc' = "dispatch"
                /\ err' = err
    /\ UNCHANGED <<lines, linep, docs, printed, in_comment, parsed,
                   brackets, out, built, span, spans>>
    /\ UNCHANGED main_vars

\* The source parser lines 606-621 choose: "return" is `return d`.
Dispatch(doc) ==
    IF Len(doc.sections) = 0 THEN "return"
    ELSE IF \/ DOC_IS(doc.sections[1], TagStruct)
            \/ DOC_IS(doc.sections[1], TagUnion)
            \/ DOC_IS(doc.sections[1], TagEnum)
            \/ DOC_IS(doc.sections[1], TagTypedef)
            \/ DOC_IS(doc.sections[1], TagVariable) THEN "struct"
    ELSE IF DOC_IS(doc.sections[1], TagFunction) THEN "function"
    ELSE IF DOC_IS(doc.sections[1], TagMacro) THEN "macro"
    ELSE "return"

\* Lines 606-624.
parse_doc_dispatch ==
    /\ pc = "dispatch"
    /\ IF Dispatch(d) = "return"
       THEN /\ docs' = Append(docs, d)
            /\ spans' = Append(spans, [span EXCEPT !.after = linep])
            /\ pc' = "scan"
       ELSE /\ pc' = Dispatch(d)
            /\ UNCHANGED <<docs, spans>>
    /\ parsed' = FALSE
    /\ brackets' = 0
    /\ UNCHANGED <<lines, linep, printed, block_lines, in_comment, d, err,
                   out, built, span>>
    /\ UNCHANGED main_vars

----------------------------------------------------------------------------
(* parse_struct_source, parse_function_source, parse_macro_source.         *)

\* A faulty parse_struct_source: a doc-comment met in the source adds a
\* section to the doc the source is captured for.
parse_struct_source_member_docs ==
    /\ pc = "struct"
    /\ linep < Len(lines)
    /\ ~parsed
    /\ LET r == struct_scan(Line(linep), 1, brackets, FALSE)
       IN  /\ brackets' = r.brackets
           /\ parsed' = r.parsed
    /\ d' = [d EXCEPT !.source = Append(@, linep),
                      !.sections = IF is_doc_comment(Line(linep))
                                   THEN Append(@, d.sections[1])
                                   ELSE @]
    /\ linep' = linep + 1
    /\ UNCHANGED <<lines, docs, printed, pc, block_lines, in_comment, err,
                   out, built, span, spans>>
    /\ UNCHANGED main_vars

\* A faulty parse_struct_source: the loop is left by `break` once parsed is
\* set, before `*linepp += 1`.
parse_struct_source_break ==
    /\ pc = "struct"
    /\ linep < Len(lines)
    /\ ~parsed
    /\ LET r == struct_scan(Line(linep), 1, brackets, FALSE)
       IN  /\ brackets' = r.brackets
           /\ parsed' = r.parsed
           /\ linep' = IF r.parsed THEN linep ELSE linep + 1
    /\ d' = [d EXCEPT !.source = Append(@, linep)]
    /\ UNCHANGED <<lines, docs, printed, pc, block_lines, in_comment, err,
                   out, built, span, spans>>
    /\ UNCHANGED main_vars

\* Lines 465-476: one pass of the loop of parse_struct_source.
parse_struct_source ==
    /\ pc = "struct"
    /\ linep < Len(lines)
    /\ ~parsed
    /\ LET r == struct_scan(Line(linep), 1, brackets, FALSE)
       IN  /\ brackets' = r.brackets
           /\ parsed' = r.parsed
    /\ d' = [d EXCEPT !.source = Append(@, linep)]
    /\ linep' = linep + 1
    /\ UNCHANGED <<lines, docs, printed, pc, block_lines, in_comment, err,
                   out, built, span, spans>>
    /\ UNCHANGED main_vars

\* Lines 490-508: one pass of the loop of parse_function_source.
parse_function_source ==
    /\ pc = "function"
    /\ linep < Len(lines)
    /\ ~parsed
    /\ LET r == function_scan(Line(linep), 1, FALSE, <<>>)
       IN  /\ parsed' = r.parsed
           /\ d' = [d EXCEPT !.source = Append(@, linep) \o r.added]
    /\ linep' = linep + 1
    /\ UNCHANGED <<lines, docs, printed, pc, block_lines, in_comment,
                   brackets, err, out, built, span, spans>>
    /\ UNCHANGED main_vars

\* Lines 522-526: one pass of the loop of parse_macro_source.
parse_macro_source ==
    /\ pc = "macro"
    /\ linep < Len(lines)
    /\ ~parsed
    /\ parsed' = macro_scan(Line(linep))
    /\ d' = [d EXCEPT !.source = Append(@, linep)]
    /\ linep' = linep + 1
    /\ UNCHANGED <<lines, docs, printed, pc, block_lines, in_comment,
                   brackets, err, out, built, span, spans>>
    /\ UNCHANGED main_vars

\* A faulty parse_source_return: the line pointer is put back to where the
\* capture started.
parse_source_return_rewind ==
    /\ pc \in {"struct", "function", "macro"}
    /\ linep <= Len(lines)
    /\ linep = Len(lines) \/ parsed
    /\ docs' = Append(docs, [d EXCEPT !.has_source = TRUE])
    /\ spans' = Append(spans, [span EXCEPT !.stopped = parsed,
                                           !.after = linep])
    /\ pc' = "scan"
    /\ linep' = span.after_block
    /\ UNCHANGED <<lines, printed, block_lines, in_comment, d, parsed,
                   brackets, err, out, built, span>>
    /\ UNCHANGED main_vars

\* The loops end (**linepp is NULL, or parsed is set), the list is
\* NULL-terminated and returned, parse_doc stores it and returns d.
parse_source_return ==
    /\ pc \in {"struct", "function", "macro"}
    /\ linep <= Len(lines)
    /\ linep = Len(lines) \/ parsed
    /\ docs' = Append(docs, [d EXCEPT !.has_source = TRUE])
    /\ spans' = Append(spans, [span EXCEPT !.stopped = parsed,
                                           !.after = linep])
    /\ pc' = "scan"
    /\ UNCHANGED <<lines, linep, printed, block_lines, in_comment, d, parsed,
                   brackets, err, out, built, span>>
    /\ UNCHANGED main_vars

\* **linepp read past the terminator of the line store (the block was not
\* closed): NULL ends the loop with nothing captured, any other word is
\* scanned as a string and the behaviour is undefined.
parse_source_beyond ==
    /\ pc \in {"struct", "function", "macro"}
    /\ linep > Len(lines)
    /\ \E word \in Beyond :
        IF word = "null"
        THEN /\ docs' = Append(docs, [d EXCEPT !.has_source = TRUE])
             /\ spans' = Append(spans, [span EXCEPT !.after = linep])
             /\ pc' = "scan"
        ELSE /\ pc' = "undefined"
             /\ UNCHANGED <<docs, spans>>
    /\ UNCHANGED <<lines, linep, printed, block_lines, in_comment, d, parsed,
                   brackets, err, out, built, span>>
    /\ UNCHANGED main_vars

----------------------------------------------------------------------------
(* print_doc, print_section.                                               *)

\* The string a source entry points to.
SourceLine(e) == IF e = Placeholder THEN FunctionDefinition ELSE Line(e)

\* printf("<h3>%.*s: %.*s</h3>\n", ...) and one puts per line of the body.
print_section(s) ==
    <<HeadOpen \o s.tag \o <<":", " ">> \o s.name \o HeadClose>> \o Body(s)

RECURSIVE print_sections(_, _)
print_sections(sections, i) ==
    IF i > Len(sections) THEN <<>>
    ELSE print_section(sections[i]) \o print_sections(sections, i + 1)

\* The lines of the source the loop of lines 635-639 writes.
RECURSIVE print_source(_, _)
print_source(source, i) ==
    IF i > Len(source) THEN <<>>
    ELSE (IF is_doc_comment(SourceLine(source[i])) THEN <<>>
          ELSE <<SourceLine(source[i])>>)
         \o print_source(source, i + 1)

print_doc(doc) ==
    print_sections(doc.sections, 1)
        \o (IF doc.has_source
            THEN <<PreOpen>> \o print_source(doc.source, 1) \o <<PreClose>>
            ELSE <<>>)
        \o <<Hr>>

\* A faulty do_file_print: a doc is written as soon as it is parsed, while
\* the PARSE loop is still running.
do_file_print_eager ==
    /\ pc \in {"print", "scan"}
    /\ printed < Len(docs)
    /\ out' = out \o print_doc(docs[printed + 1])
    /\ printed' = printed + 1
    /\ UNCHANGED <<lines, linep, docs, pc, block_lines, in_comment, d,
                   parsed, brackets, err, built, span, spans>>
    /\ UNCHANGED main_vars

\* Lines 443-445: one pass of the PRINT loop.
do_file_print ==
    /\ pc = "print"
    /\ printed < Len(docs)
    /\ out' = out \o print_doc(docs[printed + 1])
    /\ printed' = printed + 1
    /\ UNCHANGED <<lines, linep, docs, pc, block_lines, in_comment, d,
                   parsed, brackets, err, built, span, spans>>
    /\ UNCHANGED main_vars

\* Lines 447-455: CLEANUP, and do_file returns.
do_file_return ==
    /\ pc = "print"
    /\ printed = Len(docs)
    /\ pc' = "returned"
    /\ UNCHANGED <<lines, linep, docs, printed, block_lines, in_comment, d,
                   parsed, brackets, err, out, built, span, spans>>
    /\ UNCHANGED main_vars

----------------------------------------------------------------------------

Next ==
    \/ do_file_skip
    \/ do_file_parsed
    \/ do_file_beyond
    \/ parse_doc_open
    \/ parse_doc_collect
    \/ parse_doc_unclosed
    \/ parse_doc_sections
    \/ parse_doc_dispatch
    \/ parse_struct_source
    \/ parse_function_source
    \/ parse_macro_source
    \/ parse_source_return
    \/ parse_source_beyond
    \/ do_file_print
    \/ do_file_return

Spec == Init /\ [][Next]_vars

----------------------------------------------------------------------------
(* main.                                                                   *)

\* Usage_1 is the text "Usage: cdoc [OPTION]... [--] [FILE]..."
Usage_1 ==
    <<"U", "s", "a", "g", "e", ":", " ", "c", "d", "o", "c", " ", "[", "O",
      "P", "T", "I", "O", "N", "]", ".", ".", ".", " ", "[", "-", "-", "]",
      " ", "[", "F", "I", "L", "E", "]", ".", ".", ".">>
\* Usage_3 is the text "With no FILE, or when FILE is -, read standard input."
Usage_3 ==
    <<"W", "i", "t", "h", " ", "n", "o", " ", "F", "I", "L", "E", ",", " ",
      "o", "r", " ", "w", "h", "e", "n", " ", "F", "I", "L", "E", " ", "i",
      "s", " ", "-", ",", " ", "r", "e", "a", "d", " ", "s", "t", "a", "n",
      "d", "a", "r", "d", " ", "i", "n", "p", "u", "t", ".">>
\* Usage_5 is the text "Options:"
Usage_5 ==
    <<"O", "p", "t", "i", "o", "n", "s", ":">>
\* Usage_6 is the text "  --help      Display usage information and exit."
Usage_6 ==
    <<" ", " ", "-", "-", "h", "e", "l", "p", " ", " ", " ", " ", " ", " ",
      "D", "i", "s", "p", "l", "a", "y", " ", "u", "s", "a", "g", "e", " ",
      "i", "n", "f", "o", "r", "m", "a", "t", "i", "o", "n", " ", "a", "n",
      "d", " ", "e", "x", "i", "t", ".">>
\* Usage_7 is the text "  --version   Display version information and exit."
Usage_7 ==
    <<" ", " ", "-", "-", "v", "e", "r", "s", "i", "o", "n", " ", " ", " ",
      "D", "i", "s", "p", "l", "a", "y", " ", "v", "e", "r", "s", "i", "o",
      "n", " ", "i", "n", "f", "o", "r", "m", "a", "t", "i", "o", "n", " ",
      "a", "n", "d", " ", "e", "x", "i", "t", ".">>
\* VERSION is the text "0.3a"
VERSION ==
    <<"0", ".", "3", "a">>

\* What usage() hands to puts, and the newline puts adds.
Usage == <<Usage_1, <<>>, Usage_3, <<>>, Usage_5, Usage_6, Usage_7, <<>>>>

\* The most arguments of a command line.
MaxArgs == 2

\* The files of the working directory: "a" holds a doc of each capturing
\* kind, "b" ends in a block that is never closed, "c" holds a doc and then
\* a block with an empty tag.  No other name can be opened.
FileNames == {"a", "b", "c"}

FileText(name) ==
    CASE name = "a" -> DocExample \o StructExample
                         \o <<L_doc_function, L_fdef, L_rbrace,
                              L_doc_macro, L_macro, L_macro_body>>
      [] name = "b" -> <<L_member, L_open, L_tag_struct>>
      [] name = "c" -> <<L_doc_function, L_proto, L_open, L_bare_at>>

\* The text on standard input.
StdinText == <<L_doc_file, L_member>>

\* The arguments a command line is made of.
Arguments == {"--help", "--version", "--", "-", "missing"} \cup FileNames

\* perror(arg) for a file fopen could not open.
ErrOpen == "No such file or directory"

CommandLines == UNION {[1..n -> Arguments] : n \in 0..MaxArgs}

InitMain ==
    /\ argv \in CommandLines
    /\ argi = 1
    /\ parse_options = TRUE
    /\ reads = <<>>
    /\ renderings = <<>>
    /\ pc = "main"
    /\ lines = <<>>
    /\ built = <<>>
    /\ linep = 0
    /\ docs = <<>>
    /\ printed = 0
    /\ block_lines = <<>>
    /\ in_comment = FALSE
    /\ d = EmptyDoc
    /\ parsed = FALSE
    /\ brackets = 0
    /\ err = [msg |-> NoError, line |-> 0, at |-> 0]
    /\ out = <<>>
    /\ span = NoSpan
    /\ spans = <<>>

\* The variables of do_file and of what it calls.
do_file_vars ==
    <<lines, linep, docs, printed, block_lines, in_comment, d, parsed,
      brackets, built, span, spans>>

\* Lines 261-263: usage() writes the usage text and exits.
main_usage ==
    /\ pc = "main"
    /\ argi <= Len(argv)
    /\ parse_options
    /\ argv[argi] = "--help"
    /\ out' = out \o Usage
    /\ pc' = "exit_success"
    /\ UNCHANGED <<do_file_vars, err, main_vars>>

\* Lines 264-266: version() writes VERSION and exits.
main_version ==
    /\ pc = "main"
    /\ argi <= Len(argv)
    /\ parse_options
    /\ argv[argi] = "--version"
    /\ out' = out \o <<VERSION>>
    /\ pc' = "exit_success"
    /\ UNCHANGED <<do_file_vars, err, main_vars>>

\* Lines 267-270: "--" ends the options.
main_end_of_options ==
    /\ pc = "main"
    /\ argi <= Len(argv)
    /\ parse_options
    /\ argv[argi] = "--"
    /\ parse_options' = FALSE
    /\ argi' = argi + 1
    /\ UNCHANGED <<do_file_vars, err, out, pc, argv, reads, renderings>>

\* The argument at argi is none of the options lines 261-270 handle.
IsFile(arg) == ~(parse_options /\ arg \in {"--help", "--version", "--"})

\* Line 272.
use_stdin(arg) == arg = "-" /\ ~parse_options

\* Lines 272-278 and 426-428: the stream is chosen and opened, and do_file
\* reads it whole and splits it into lines.  Reading stdin after
\* fclose(stdin) is undefined.
main_do_file ==
    /\ pc = "main"
    /\ argi <= Len(argv)
    /\ IsFile(argv[argi])
    /\ use_stdin(argv[argi]) \/ argv[argi] \in FileNames
    /\ LET stream == IF use_stdin(argv[argi]) THEN "stdin" ELSE argv[argi]
           text == IF stream = "stdin" THEN StdinText ELSE FileText(stream)
       IN  IF \E k \in 1..Len(reads) : reads[k] = "stdin" /\ stream = "stdin"
           THEN /\ pc' = "undefined"
                /\ UNCHANGED <<do_file_vars, reads>>
           ELSE /\ reads' = Append(reads, stream)
                /\ lines' = text
                /\ built' = text
                /\ linep' = 0
                /\ docs' = <<>>
                /\ spans' = <<>>
                /\ span' = NoSpan
                /\ printed' = 0
                /\ block_lines' = <<>>
                /\ in_comment' = FALSE
                /\ d' = EmptyDoc
                /\ parsed' = FALSE
                /\ brackets' = 0
                /\ pc' = "scan"
    /\ UNCHANGED <<err, out, argv, argi, parse_options, renderings>>

\* Lines 273-276: fopen returned NULL.
main_perror ==
    /\ pc = "main"
    /\ argi <= Len(argv)
    /\ IsFile(argv[argi])
    /\ ~use_stdin(argv[argi])
    /\ argv[argi] \notin FileNames
    /\ err' = [msg |-> ErrOpen, line |-> 0, at |-> 0]
    /\ pc' = "exit_failure"
    /\ UNCHANGED <<do_file_vars, out, main_vars>>

\* What the PRINT loop of lines 443-445 writes for the docs ds from the
\* i-th on.
RECURSIVE print_docs(_, _)
print_docs(ds, i) ==
    IF i > Len(ds) THEN <<>>
    ELSE print_doc(ds[i]) \o print_docs(ds, i + 1)

\* Lines 277-278 and 259: do_file has returned, the stream is closed and
\* the loop goes on with the next argument.
main_fclose ==
    /\ pc = "returned"
    /\ argi <= Len(argv)
    /\ argi' = argi + 1
    /\ pc' = "main"
    /\ renderings' = Append(renderings, print_docs(docs, 1))
    /\ UNCHANGED <<do_file_vars, err, out, argv, parse_options, reads>>

\* Lines 259 and 282: i == argc, main returns EXIT_SUCCESS.
main_return ==
    /\ pc = "main"
    /\ argi > Len(argv)
    /\ pc' = "exit_success"
    /\ UNCHANGED <<do_file_vars, err, out, main_vars>>

main ==
    \/ main_usage
    \/ main_version
    \/ main_end_of_options
    \/ main_do_file
    \/ main_perror
    \/ main_fclose
    \/ main_return
    \/ Next

SpecMain == InitMain /\ [][main]_vars

----------------------------------------------------------------------------
(* Properties.                                                             *)

\* NameFoo is the text "foo"
NameFoo ==
    <<"f", "o", "o">>
\* TextFooing is the text "The struct used for fooing."
TextFooing ==
    <<"T", "h", "e", " ", "s", "t", "r", "u", "c", "t", " ", "u", "s", "e",
      "d", " ", "f", "o", "r", " ", "f", "o", "o", "i", "n", "g", ".">>

\* The offsets lo, lo + 1, ..., hi as a source list.
Range(lo, hi) == [k \in 1..(hi - lo + 1) |-> lo + k - 1]

\* The input line at offset i, as read from the file.
Input(i) == built[i + 1]

\* C1: after every step of the document assembler and of each sub-scanner
\* the cursor lies in [0, length], length being the number of lines.
C1_CursorInRange == linep \in 0..Len(lines)

\* C2: a capture that reaches the end of the input without meeting its stop
\* condition (a doc block never closed, an aggregate declaration with no ';'
\* at depth zero) is fatal: no doc is made of a truncated block or span.
C2_UnterminatedIsFatal ==
    \A i \in 1..Len(docs) :
        /\ spans[i].closed
        /\ Dispatch(docs[i]) = "struct" => spans[i].stopped

\* C3: every doc of the sequence do_file builds has at least one section.
C3_SectionsNonEmpty ==
    \A i \in 1..Len(docs) : Len(docs[i].sections) > 0

\* The first of the characters '{' and ';' on a line, NUL if it has neither.
FirstBraceOrSemi(line) ==
    LET hits == {p \in 1..Len(line) : line[p] \in {"{", ";"}}
    IN  IF hits = {} THEN NUL ELSE line[Least(hits)]

\* The lines at or after offset c0 that hold a '{' or a ';'.
Deciding(c0) ==
    {t \in c0..(Len(built) - 1) : FirstBraceOrSemi(Input(t)) # NUL}

\* C4: when a function doc meets a '{' before any ';', its source is the
\* lines from the cursor through the line with that '{' followed by exactly
\* one placeholder line, and the cursor resumes right after that line.
C4_DefinitionCapture ==
    \A i \in 1..Len(docs) :
        LET c0 == spans[i].after_block
        IN  (/\ Dispatch(docs[i]) = "function"
             /\ Deciding(c0) # {}
             /\ FirstBraceOrSemi(Input(Least(Deciding(c0)))) = "{")
            => /\ docs[i].source
                    = Range(c0, Least(Deciding(c0))) \o <<Placeholder>>
               /\ spans[i].after = Least(Deciding(c0)) + 1

\* C5: the doc-lines of the comment on struct section form exactly one
\* section, with the tag "struct", the name "foo" and a body of the single
\* line "The struct used for fooing."; the closing line adds no body line.
C5_SectionExample ==
    (/\ Len(docs) >= 1
     /\ Len(built) >= 4
     /\ SubSeq(built, 1, 4) = DocExample)
    => /\ Len(docs[1].sections) = 1
       /\ docs[1].sections[1].tag = TagStruct
       /\ docs[1].sections[1].name = NameFoo
       /\ Body(docs[1].sections[1]) = <<TextFooing>>

\* C6: an empty tag is reported with the 1-indexed number of its line in
\* the input file.
C6_EmptyTagLine ==
    (pc = "exit_failure" /\ err.msg = ErrEmptyTag)
    => err.line = err.at + 1

\* The number of positions 1..upto of a line that hold the character c.
Count(line, upto, c) == Cardinality({q \in 1..upto : line[q] = c})

\* The count of '{' minus the count of '}' in the whole lines c0..t-1.
RECURSIVE DepthBefore(_, _)
DepthBefore(c0, t) ==
    IF t <= c0 THEN 0
    ELSE DepthBefore(c0, t - 1)
         + Count(Input(t - 1), Len(Input(t - 1)), "{")
         - Count(Input(t - 1), Len(Input(t - 1)), "}")

\* Line t holds a ';' at which the running count started at line c0 is zero.
EndsDeclaration(c0, t) ==
    \E p \in 1..Len(Input(t)) :
        /\ Input(t)[p] = ";"
        /\ DepthBefore(c0, t) + Count(Input(t), p, "{")
             - Count(Input(t), p, "}") = 0

DeclarationEnds(c0) ==
    {t \in c0..(Len(built) - 1) : EndsDeclaration(c0, t)}

\* The strings a source list points to are the input lines at its offsets.
Verbatim(source) ==
    \A k \in 1..Len(source) :
        source[k] # Placeholder => Line(source[k]) = Input(source[k])

\* C7: for a doc whose first tag is struct, union, enum, typedef or variable
\* the source is exactly the lines from the cursor through the first line
\* that holds a ';' while the count of '{' minus '}' since the cursor is zero.
C7_AggregateCapture ==
    \A i \in 1..Len(docs) :
        LET c0 == spans[i].after_block
        IN  (Dispatch(docs[i]) = "struct" /\ DeclarationEnds(c0) # {})
            => /\ docs[i].has_source
               /\ docs[i].source = Range(c0, Least(DeclarationEnds(c0)))
               /\ Verbatim(docs[i].source)

\* C7 witness: the documented four-line struct of the comment on struct doc
\* has been captured as four lines.
C7_Witness ==
    \E i \in 1..Len(docs) :
        /\ Dispatch(docs[i]) = "struct"
        /\ Len(docs[i].source) = 4
        /\ [k \in 1..4 |-> Line(docs[i].source[k])] = StructExample

\* The last character of a line is a backslash.
Continued(line) == Len(line) > 0 /\ line[Len(line)] = "\\"

MacroEnds(c0) == {t \in c0..(Len(built) - 1) : ~Continued(Input(t))}

\* C8: a macro doc's source is the lines from the cursor up to and including
\* the first line (an empty one too) whose last character is no backslash
\* (all the lines left when there is none), and every captured line before
\* the last one ends with a backslash.
C8_MacroCapture ==
    \A i \in 1..Len(docs) :
        LET c0 == spans[i].after_block
            src == docs[i].source
        IN  Dispatch(docs[i]) = "macro"
            => /\ docs[i].has_source
               /\ MacroEnds(c0) # {} => src = Range(c0, Least(MacroEnds(c0)))
               /\ MacroEnds(c0) = {} => src = Range(c0, Len(built) - 1)
               /\ \A k \in 1..(Len(src) - 1) : Continued(Input(src[k]))
               /\ Verbatim(src)

\* C8 witness: a macro capture of a continued line and the empty line that
\* follows it, with more lines after the empty one.
C8_Witness ==
    \E i \in 1..Len(docs) :
        /\ Dispatch(docs[i]) = "macro"
        /\ Len(docs[i].source) = 2
        /\ Line(docs[i].source[2]) = L_empty
        /\ docs[i].source[2] + 1 < Len(lines)

\* C9: the line store is read-only after text_to_lines: every line holds
\* the text it had when the store was built.
C9_LinesReadOnly == lines = built

TagsWithSource ==
    {TagStruct, TagUnion, TagEnum, TagTypedef, TagVariable, TagFunction,
     TagMacro}

\* C10: a doc has a source iff its first section's tag is, as a whole
\* token, one of the seven tags; for any other first tag the cursor after
\* the doc is the offset right after the last line of the doc block.
C10_DispatchByTag ==
    \A i \in 1..Len(docs) :
        LET known == /\ Len(docs[i].sections) > 0
                     /\ docs[i].sections[1].tag \in TagsWithSource
        IN  /\ docs[i].has_source <=> known
            /\ (Len(docs[i].sections) > 0 /\ ~known)
               => spans[i].after = spans[i].first + spans[i].block_len

\* For the blocks that are closed the cursor part of C10 holds: the cursor
\* after a doc without source is the offset right after the closing line.
ClosedBlockCursor ==
    \A i \in 1..Len(docs) :
        (spans[i].closed /\ ~docs[i].has_source)
        => spans[i].after = spans[i].first + spans[i].block_len

\* The entries of a source list that point into the line store.
RealLines(source) == SelectSeq(source, LAMBDA e : e # Placeholder)

\* C11: the real lines of the span a sub-scanner returns are exactly the
\* lines c0 .. c1 - 1 of the line store, c0 being the cursor on entry and c1
\* the cursor on return.
C11_SpanIsCursorRange ==
    \A i \in 1..Len(docs) :
        docs[i].has_source
        => /\ RealLines(docs[i].source)
                = Range(spans[i].after_block, spans[i].after - 1)
           /\ Verbatim(docs[i].source)

\* C11 witness: an aggregate capture of several lines has returned before
\* the end of the file.
C11_Witness ==
    \E i \in 1..Len(docs) :
        /\ Dispatch(docs[i]) = "struct"
        /\ Len(docs[i].source) >= 2
        /\ spans[i].stopped
        /\ spans[i].after < Len(lines)


\* C16: the PARSE loop of do_file ends exactly with the cursor equal to the
\* length of the line store.
C16_ScanEndsAtLength ==
    pc = "print" => linep = Len(lines)


\* C17: no step decreases the cursor; a pass of the PARSE loop that steps
\* over a line that is no doc-comment increases it by one, and a pass that
\* parses a block together with its source leaves it after the line the
\* block started on.
C17_CursorForward ==
    [][/\ linep' >= linep
       /\ (pc = "scan" /\ pc' = "scan" => linep' = linep + 1)
       /\ (pc = "scan" /\ pc' \in {"collect", "sections"} => linep' > linep)
       /\ (Len(docs') > Len(docs)
           => /\ spans'[Len(docs')].after > spans'[Len(docs')].first
              /\ spans'[Len(docs')].after = linep'
              /\ spans'[Len(docs')].first < linep)]_vars

\* C17 witness: a pass of the PARSE loop has consumed a block and a source
\* of several lines, and the following pass has stepped over a line.
C17_Witness ==
    /\ pc = "scan"
    /\ Len(docs) >= 1
    /\ spans[Len(docs)].after > spans[Len(docs)].after_block + 1
    /\ linep > spans[Len(docs)].after


\* C18: when a function doc meets a ';' before any '{', its source is the
\* lines from the cursor through the line with that ';', with no
\* placeholder line, and the cursor resumes right after that line.
C18_PrototypeCapture ==
    \A i \in 1..Len(docs) :
        LET c0 == spans[i].after_block
        IN  (/\ Dispatch(docs[i]) = "function"
             /\ Deciding(c0) # {}
             /\ FirstBraceOrSemi(Input(Least(Deciding(c0)))) = ";")
            => /\ docs[i].source = Range(c0, Least(Deciding(c0)))
               /\ Verbatim(docs[i].source)
               /\ spans[i].after = Least(Deciding(c0)) + 1

\* C18 witness: a function doc whose prototype ends on a later line than
\* the one the capture started on.
C18_Witness ==
    \E i \in 1..Len(docs) :
        LET c0 == spans[i].after_block
        IN  /\ Dispatch(docs[i]) = "function"
            /\ Deciding(c0) # {}
            /\ FirstBraceOrSemi(Input(Least(Deciding(c0)))) = ";"
            /\ Least(Deciding(c0)) > c0
            /\ docs[i].has_source


\* The text of s before its first "*/", all of s when it has none.
CutClose(s) ==
    LET e == strstr(s, DocClose)
    IN  IF e = 0 THEN s ELSE SubSeq(s, 1, e - 1)

\* The content of the k-th line of the block the span sp records, read
\* from the file as it was built: the first line starts after its "/*!".
BlockText(sp, k) ==
    LET raw == Input(sp.first + k - 1)
    IN  CutClose(IF k = 1 THEN From(raw, strstr(raw, DocOpen) + 3) ELSE raw)

\* The cleaned lines of the block of span sp.
Cleaned(sp) == [k \in 1..sp.block_len |-> clean_doc_line(BlockText(sp, k))]

\* The indices of the tag lines among cleaned lines.
TagLines(cleaned) == {k \in 1..Len(cleaned) : At(cleaned[k], 1) = "@"}

\* The n-th least element of a set of integers.
Nth(S, n) == CHOOSE x \in S : Cardinality({y \in S : y < x}) = n - 1

\* The positions where a whitespace-delimited token of line starts.
TokenStarts(line) ==
    {p \in 1..Len(line) :
        ~is_hspace(line[p]) /\ (p = 1 \/ is_hspace(line[p - 1]))}

\* The n-th whitespace-delimited token of line, empty when there is none.
Token(line, n) ==
    IF n > Cardinality(TokenStarts(line)) THEN <<>>
    ELSE LET b == Nth(TokenStarts(line), n)
             e == Least({q \in b..Len(line) :
                            q = Len(line) \/ is_hspace(line[q + 1])})
         IN  SubSeq(line, b, e)

\* A tag line with no tag: nothing, or whitespace, right after the '@'.
HasEmptyTag(line) == Len(line) = 1 \/ is_hspace(At(line, 2))

\* A tag line with a non-whitespace character after its name token.
HasTrailing(line) ==
    ~HasEmptyTag(line) /\ Cardinality(TokenStarts(line)) >= 3

\* C19: the run aborts with "Extra character(s) after tag line <NAME>"
\* exactly on a tag line that has a non-whitespace character after its name
\* token; tag lines with only whitespace after the tag or after the name
\* do not abort, and no doc is built from a block with such a tag line.
C19_TrailingCharacters ==
    /\ pc = "exit_failure"
       => LET cleaned == Cleaned(span)
              k == err.at - span.first + 1
          IN  /\ k \in TagLines(cleaned)
              /\ (err.msg = ErrTrailing) = HasTrailing(cleaned[k])
              /\ (err.msg = ErrEmptyTag) = HasEmptyTag(cleaned[k])
              /\ \A j \in TagLines(cleaned) :
                    j < k => ~HasTrailing(cleaned[j])
                             /\ ~HasEmptyTag(cleaned[j])
    /\ \A i \in 1..Len(docs) :
          \A j \in TagLines(Cleaned(spans[i])) :
              ~HasTrailing(Cleaned(spans[i])[j])
    /\ pc \in {"dispatch", "struct", "function", "macro"}
       => \A j \in TagLines(Cleaned(span)) : ~HasTrailing(Cleaned(span)[j])

\* C19 witness: the run has aborted on a tag line with extra tokens that
\* follows a tag line of the same block that did not abort.
C19_Witness ==
    /\ pc = "exit_failure"
    /\ err.msg = ErrTrailing
    /\ \E j \in TagLines(Cleaned(span)) : j < err.at - span.first + 1


\* The spans of the docs built so far and, while a doc is being built, its
\* own.
SpansSoFar ==
    {spans[i] : i \in 1..Len(spans)}
        \cup (IF pc \in {"collect", "sections", "dispatch", "struct",
                         "function", "macro", "exit_failure"}
              THEN {span} ELSE {})

\* An opening line that has a "*/" after its "/*!".
OneLineBlock(line) ==
    /\ is_doc_comment(line)
    /\ strstr(From(line, strstr(line, DocOpen) + 3), DocClose) # 0

\* The text of an opening line strictly between its "/*!" and the first
\* "*/" that follows.
Between(line) ==
    LET content == From(line, strstr(line, DocOpen) + 3)
        hits == {p \in 1..(Len(content) - 1) :
                    content[p] = "*" /\ content[p + 1] = "/"}
    IN  SubSeq(content, 1, Least(hits) - 1)

\* C20: a block opened by a line that has a "*/" after its "/*!" is that
\* single line, its content is the text strictly between the two, and the
\* cursor is one past the opening line when the block is complete.
C20_OneLineBlock ==
    /\ \A sp \in SpansSoFar :
          OneLineBlock(Input(sp.first))
          => /\ sp.block_len = 1
             /\ sp.closed
             /\ sp.after_block = sp.first + 1
    /\ (pc = "sections" /\ OneLineBlock(Input(span.first)))
       => /\ block_lines = <<Between(Input(span.first))>>
          /\ linep = span.first + 1

\* C20 witness: a one-line block with text between its delimiters has been
\* collected at a line that is not the first of the file.
C20_Witness ==
    /\ pc = "sections"
    /\ span.first > 0
    /\ OneLineBlock(Input(span.first))
    /\ Len(block_lines) = 1
    /\ Len(block_lines[1]) > 0


\* C14: a doc has one section for each line of its block whose cleaned
\* content starts with '@', in the order of those lines, and the tag and the
\* name of the n-th section are the first and the second
\* whitespace-delimited token after the '@' of the n-th such line, the name
\* being empty when there is no second token.
C14_SectionPerTagLine ==
    \A i \in 1..Len(docs) :
        LET cleaned == Cleaned(spans[i])
            T == TagLines(cleaned)
        IN  /\ Len(docs[i].sections) = Cardinality(T)
            /\ \A n \in 1..Cardinality(T) :
                  LET after_at == From(cleaned[Nth(T, n)], 2)
                  IN  /\ docs[i].sections[n].tag = Token(after_at, 1)
                      /\ docs[i].sections[n].name = Token(after_at, 2)

\* C14 witness: a doc of two sections, the first with a name and the
\* second without, with text lines between and after their tag lines.
C14_Witness ==
    \E i \in 1..Len(docs) :
        LET T == TagLines(Cleaned(spans[i]))
        IN  /\ Len(docs[i].sections) = 2
            /\ Nth(T, 2) > Nth(T, 1) + 1
            /\ Nth(T, 2) < spans[i].block_len
            /\ Len(docs[i].sections[1].name) > 0
            /\ Len(docs[i].sections[2].name) = 0


\* The tags the blocks of the example of README.md document.
ReadmeTags ==
    {<<"f", "i", "l", "e">>, TagMacro, TagStruct, TagFunction}

\* C13: once the example of README.md is parsed, there is a doc for each
\* of its @file, @macro, @struct and @function blocks.
C13_ReadmeExampleDocs ==
    (built = ReadmeExample /\ pc \in {"print", "returned"})
    => \A tag \in ReadmeTags :
          \E i \in 1..Len(docs) :
              /\ Len(docs[i].sections) >= 1
              /\ docs[i].sections[1].tag = tag

\* The text of source entry j in which the "*/" that closes a doc-comment
\* opened at entry m is looked for.
CloseText(source, m, j) ==
    IF j = m
    THEN From(Input(source[j]), strstr(Input(source[j]), DocOpen) + 3)
    ELSE Input(source[j])

\* Entry n of the source of a doc is a documentation line: a
\* documentation-opening line or, in an aggregate, a line of a doc-comment
\* that is opened at an entry m before it and closed at an entry c at or
\* after it.
Embedded(doc, n) ==
    LET source == doc.source
    IN  /\ source[n] # Placeholder
        /\ \/ is_doc_comment(Input(source[n]))
           \/ /\ Dispatch(doc) = "struct"
              /\ \E m \in 1..(n - 1), c \in n..Len(source) :
                    /\ is_doc_comment(Input(source[m]))
                    /\ strstr(CloseText(source, m, c), DocClose) # 0
                    /\ \A j \in m..(c - 1) :
                          strstr(CloseText(source, m, j), DocClose) = 0

\* The source lines of a doc that are no documentation lines, from entry n
\* on.
RECURSIVE Undocumented(_, _)
Undocumented(doc, n) ==
    IF n > Len(doc.source) THEN <<>>
    ELSE (IF Embedded(doc, n) THEN <<>>
          ELSE <<SourceLine(doc.source[n])>>)
         \o Undocumented(doc, n + 1)

\* What is written for the docs from the n-th on when no documentation
\* line of a source is written.
RECURSIVE Rendered(_)
Rendered(n) ==
    IF n > Len(docs) THEN <<>>
    ELSE print_sections(docs[n].sections, 1)
         \o (IF docs[n].has_source
             THEN <<PreOpen>> \o Undocumented(docs[n], 1) \o <<PreClose>>
             ELSE <<>>)
         \o <<Hr>>
         \o Rendered(n + 1)

\* C15: the preformatted block of a doc holds, in captured order, the
\* captured lines that are no documentation lines: neither the opening
\* line of a doc-comment embedded in the source nor its other lines.
C15_SourceWithoutDocLines ==
    pc = "returned" => out = Rendered(1)


\* The FILE arguments of a command line, from argument i on: every argument
\* but the options "--help" and "--version" and the first "--".
RECURSIVE FileArgs(_, _, _)
FileArgs(args, i, options) ==
    IF i > Len(args) THEN <<>>
    ELSE IF options /\ args[i] = "--" THEN FileArgs(args, i + 1, FALSE)
    ELSE IF options /\ args[i] \in {"--help", "--version"}
    THEN FileArgs(args, i + 1, options)
    ELSE <<args[i]>> \o FileArgs(args, i + 1, options)

\* The streams a command line selects: standard input when it has no FILE
\* argument, and otherwise standard input for each FILE "-" and the file of
\* that name for every other FILE.
Selected(args) ==
    LET files == FileArgs(args, 1, TRUE)
    IN  IF files = <<>> THEN <<"stdin">>
        ELSE [k \in 1..Len(files) |->
                 IF files[k] = "-" THEN "stdin" ELSE files[k]]

\* C12: the streams read are those the command line selects, in order: all
\* of them once main has returned, and a "-" is never opened as a file.
C12_InputSelection ==
    /\ Len(reads) <= Len(Selected(argv))
    /\ \A k \in 1..Len(reads) : reads[k] = Selected(argv)[k]
    /\ (pc = "exit_success" /\ argi > Len(argv)) => reads = Selected(argv)
    /\ (pc = "exit_failure" /\ err.msg = ErrOpen) => argv[argi] # "-"


\* The statements of the PARSE loop of do_file and of what it calls.
Parsing ==
    {"scan", "collect", "sections", "dispatch", "struct", "function",
     "macro"}

\* The lines of the sequences of lines from the i-th on, one after another.
RECURSIVE Concat(_, _)
Concat(seqs, i) ==
    IF i > Len(seqs) THEN <<>> ELSE seqs[i] \o Concat(seqs, i + 1)

\* The run has aborted on a syntax error of a doc-comment.
SyntaxError ==
    pc = "exit_failure" /\ err.msg \in {ErrEmptyTag, ErrTrailing}

\* C21: while the k-th file is parsed, and when a syntax error aborts the
\* run in it, the output is exactly the complete renderings of the files
\* 1 .. k-1, in the order of the arguments, and nothing of file k; a file
\* is rendered whole before do_file returns; and no step follows an abort,
\* so no later file is read.
C21_FailFast ==
    [][/\ pc # "exit_failure"
       /\ (pc' \in Parsing \/ SyntaxError')
          => /\ out' = Concat(renderings', 1)
             /\ Len(renderings') = Len(reads') - 1
             /\ reads' = SubSeq(Selected(argv'), 1, Len(reads'))
       /\ pc' = "returned"
          => out' = Concat(renderings', 1) \o print_docs(docs', 1)]_vars

\* C21 witness: a syntax error has aborted the run in the second file,
\* after a doc of that file was parsed and the first file was rendered.
C21_Witness ==
    /\ SyntaxError
    /\ Len(reads) = 2
    /\ Len(renderings) = 1
    /\ Len(renderings[1]) > 0
    /\ Len(docs) >= 1


\* The lines the doc of span sp and source `source` has consumed: the lines
\* of its block and the lines of the store its source points at.
Consumed(sp, source) ==
    {sp.first + k - 1 : k \in 1..sp.block_len}
        \cup {source[n] : n \in {q \in 1..Len(source) :
                                    source[q] # Placeholder}}

\* The documentation-opening lines the source of the i-th doc holds.
Nested(i) ==
    {e \in Consumed(NoSpan, docs[i].source) : is_doc_comment(Input(e))}

\* C22: a documentation-opening line inside a captured source starts no
\* doc, neither a built one nor the one under construction, and adds no
\* section to the doc that captured it, whose sections are those of the tag
\* lines of its own block; and the lines consumed by successive docs are
\* strictly increasing, so no line belongs to two docs.
C22_NestedDocsInert ==
    /\ \A i \in 1..Len(docs) :
          /\ \A e \in Nested(i) :
                /\ \A j \in 1..Len(docs) : spans[j].first # e
                /\ pc \in {"collect", "sections", "dispatch", "struct",
                           "function", "macro", "exit_failure"}
                   => span.first # e
          /\ Len(docs[i].sections)
                = Cardinality(TagLines(Cleaned(spans[i])))
          /\ Consumed(spans[i], docs[i].source)
                \subseteq spans[i].first..(spans[i].after - 1)
    /\ \A i, j \in 1..Len(docs) :
          i < j
          => \A x \in Consumed(spans[i], docs[i].source),
                y \in Consumed(spans[j], docs[j].source) : x < y
    /\ pc \in {"collect", "sections", "dispatch", "struct", "function",
               "macro"}
       => \A i \in 1..Len(docs) :
             \A x \in Consumed(spans[i], docs[i].source),
                y \in Consumed(span, d.source) : x < y

\* C22 witness: an aggregate has captured a documentation-opening line with
\* a tag, and another doc was built after it.
C22_Witness ==
    \E i \in 1..Len(docs) :
        /\ i < Len(docs)
        /\ \E e \in Nested(i) :
              At(clean_doc_line(BlockText([NoSpan EXCEPT !.first = e], 1)),
                 1) = "@"

====
